---- MODULE Spec2Model ----
\* Model of api/server.js: the Hono request handlers over the SQLite store
\* (listing, single lookup, entities with fallback mining, themes, stats,
\* export), the record normalisation they share and the connection lifecycle.
EXTENDS Integers, Sequences, FiniteSets, TLC

VARIABLES
    db,      \* the store: tables present, joined analysis rows, file openable
    pc,      \* position of the request handler that is running
    req,     \* the request being handled: route, query parameters, :id
    conn,    \* number of connections currently open
    closes,  \* number of db.close() calls made for the current request
    loc,     \* the running handler's local variables
    resp,    \* the response produced for the current request
    probes,  \* number of taxonomy queries issued by the current request
    scans    \* number of fallback scan queries issued by the current request

vars == <<db, pc, req, conn, closes, loc, resp, probes, scans>>

----------------------------------------------------------------------------
\* Bounds of the model

MaxRows == 2          \* rows of condensed_comments written out in full
MaxNormRows == 1      \* rows written out in full when every attributes text is tried
MaxExtra == 1         \* how far the bulk row count goes above the export ceiling

----------------------------------------------------------------------------
\* JavaScript values

Undefined == [t |-> "undefined"]
JsNull == [t |-> "null"]
NaN == [t |-> "nan"]
Infinity == [t |-> "inf"]
Str(s) == [t |-> "str", s |-> s]
Num(n) == [t |-> "num", n |-> n]
Obj(o) == [t |-> "obj", o |-> o]
Arr(a) == [t |-> "arr", a |-> a]

EmptyObj == Obj(<<>>)
EmptyStr == Str(<<>>)

\* ToBoolean, as used by ||, ?: and if
Truthy(v) ==
    CASE v.t = "undefined" -> FALSE
      [] v.t = "null" -> FALSE
      [] v.t = "nan" -> FALSE
      [] v.t = "str" -> v.s # <<>>
      [] v.t = "num" -> v.n # 0
      [] OTHER -> TRUE

\* a || b
OrElse(a, b) == IF Truthy(a) THEN a ELSE b

\* ToString of an operand of string concatenation
ToStringChars(v) ==
    CASE v.t = "undefined" -> <<"u", "n", "d", "e", "f", "i", "n", "e", "d">>
      [] v.t = "null" -> <<"n", "u", "l", "l">>
      [] v.t = "str" -> v.s
      [] OTHER -> <<"?">>

\* a + b where one operand is a string
Plus(a, b) == Str(ToStringChars(a) \o ToStringChars(b))

\* o[k]: reading a property of undefined or null throws a TypeError
CanRead(o) == o.t \notin {"undefined", "null"}

GetProp(o, k) ==
    IF o.t = "obj" /\ k \in DOMAIN o.o THEN o.o[k] ELSE Undefined

----------------------------------------------------------------------------
\* Numbers: parseInt, the offset arithmetic and Math.ceil of a quotient

Digits == {"0", "1", "2", "3", "4", "5", "6", "7", "8", "9"}

DigitVal(ch) ==
    CASE ch = "0" -> 0 [] ch = "1" -> 1 [] ch = "2" -> 2 [] ch = "3" -> 3
      [] ch = "4" -> 4 [] ch = "5" -> 5 [] ch = "6" -> 6 [] ch = "7" -> 7
      [] ch = "8" -> 8 [] ch = "9" -> 9

RECURSIVE SkipSpaces(_)
SkipSpaces(s) ==
    IF s # <<>> /\ Head(s) = " " THEN SkipSpaces(Tail(s)) ELSE s

\* value of the longest prefix of decimal digits of s, acc the value so far
RECURSIVE DigitPrefix(_, _)
DigitPrefix(s, acc) ==
    IF s # <<>> /\ Head(s) \in Digits
    THEN DigitPrefix(Tail(s), 10 * acc + DigitVal(Head(s)))
    ELSE acc

\* parseInt(v) with the default radix
parseInt(v) ==
    CASE v.t = "num" -> v
      [] v.t = "str" ->
            LET s == SkipSpaces(v.s)
                neg == s # <<>> /\ Head(s) = "-"
                body == IF s # <<>> /\ Head(s) \in {"-", "+"} THEN Tail(s) ELSE s
            IN  IF body = <<>> \/ Head(body) \notin Digits
                THEN NaN
                ELSE Num((IF neg THEN -1 ELSE 1) * DigitPrefix(body, 0))
      [] OTHER -> NaN

\* (a - 1) * b
OffsetOf(a, b) ==
    IF a.t = "num" /\ b.t = "num" THEN Num((a.n - 1) * b.n) ELSE NaN

\* Math.ceil(total / b) for an integer total
MathCeilDiv(total, b) ==
    CASE b.t # "num" -> NaN
      [] b.n = 0 -> IF total = 0 THEN NaN ELSE Infinity
      [] b.n > 0 -> Num(-((-total) \div b.n))
      [] OTHER -> Num(-(total \div (-b.n)))

----------------------------------------------------------------------------
\* Column values and JSON.parse

NullCol == [k |-> "NULL"]                 \* SQL NULL, or no joined row
EmptyText == [k |-> "empty"]              \* the text ''
Malformed == [k |-> "malformed"]          \* a text that is not JSON
Json(v) == [k |-> "json", v |-> v]        \* the JSON text of the value v

\* column || '{}'
OrEmptyObjectText(col) ==
    IF col.k \in {"NULL", "empty"} THEN Json(EmptyObj) ELSE col

\* JSON.parse(text): throws a SyntaxError unless the text is JSON
ParseThrows(text) == text.k # "json"
ParseValue(text) == text.v

\* let x = {}; try { x = JSON.parse(col || '{}') } catch (e) { log }
ParseOrEmpty(col) ==
    LET text == OrEmptyObjectText(col)
    IN  IF ParseThrows(text) THEN EmptyObj ELSE ParseValue(text)

----------------------------------------------------------------------------
\* Record normalisation

\* the object literal of the listing and of the single lookup reads
\* originalData.comment first: that read throws when originalData is null
NormalizeThrows(comment) ==
    ~CanRead(ParseOrEmpty(comment.attributes_json))

\* extractedComment with commentText tried before comment
extractedCommentTextFirst(comment) ==
    LET parsed == ParseOrEmpty(comment.structured_sections)
        originalData == ParseOrEmpty(comment.attributes_json)
        G(k) == GetProp(originalData, k)
    IN  [comment_id |-> comment.comment_id,
         status |-> comment.status,
         structured_sections |-> comment.structured_sections,
         created_at |-> comment.created_at,
         attributes_json |-> comment.attributes_json,
         parsed_content |-> parsed,
         original_text |->
            OrElse(OrElse(OrElse(G("commentText"), G("comment")), G("content")), EmptyStr),
         submitter_name |->
            OrElse(OrElse(G("submitterName"),
                          Plus(Plus(G("firstName"), Str(<<" ">>)), G("lastName"))),
                   EmptyStr),
         organization_name |->
            OrElse(OrElse(G("organization"), G("organizationName")), EmptyStr),
         submission_date |->
            OrElse(OrElse(OrElse(G("postedDate"), G("submissionDate")), G("datePosted")), EmptyStr),
         comment_url |-> OrElse(OrElse(G("commentURL"), G("url")), EmptyStr)]

\* listing: comments.map(comment => { ... return extractedComment })
extractedComment(comment) ==
    LET parsed == ParseOrEmpty(comment.structured_sections)
        originalData == ParseOrEmpty(comment.attributes_json)
        G(k) == GetProp(originalData, k)
    IN  [comment_id |-> comment.comment_id,
         status |-> comment.status,
         structured_sections |-> comment.structured_sections,
         created_at |-> comment.created_at,
         attributes_json |-> comment.attributes_json,
         parsed_content |-> parsed,
         original_text |->
            OrElse(OrElse(OrElse(G("comment"), G("commentText")), G("content")), EmptyStr),
         submitter_name |->
            OrElse(OrElse(G("submitterName"),
                          Plus(Plus(G("firstName"), Str(<<" ">>)), G("lastName"))),
                   EmptyStr),
         organization_name |->
            OrElse(OrElse(G("organization"), G("organizationName")), EmptyStr),
         submission_date |->
            OrElse(OrElse(OrElse(G("postedDate"), G("submissionDate")), G("datePosted")), EmptyStr),
         comment_url |-> OrElse(OrElse(G("commentURL"), G("url")), EmptyStr)]

\* single lookup: the same literal, written out a second time in the source
processedComment(comment) ==
    LET parsed == ParseOrEmpty(comment.structured_sections)
        originalData == ParseOrEmpty(comment.attributes_json)
        G(k) == GetProp(originalData, k)
    IN  [comment_id |-> comment.comment_id,
         status |-> comment.status,
         structured_sections |-> comment.structured_sections,
         created_at |-> comment.created_at,
         attributes_json |-> comment.attributes_json,
         parsed_content |-> parsed,
         original_text |->
            OrElse(OrElse(OrElse(G("comment"), G("commentText")), G("content")), EmptyStr),
         submitter_name |->
            OrElse(OrElse(G("submitterName"),
                          Plus(Plus(G("firstName"), Str(<<" ">>)), G("lastName"))),
                   EmptyStr),
         organization_name |->
            OrElse(OrElse(G("organization"), G("organizationName")), EmptyStr),
         submission_date |->
            OrElse(OrElse(OrElse(G("postedDate"), G("submissionDate")), G("datePosted")), EmptyStr),
         comment_url |-> OrElse(OrElse(G("commentURL"), G("url")), EmptyStr)]

\* export: the narrower literal (text, submitter, organization)
exportedComment(comment) ==
    LET parsed == ParseOrEmpty(comment.structured_sections)
        originalData == ParseOrEmpty(comment.attributes_json)
        G(k) == GetProp(originalData, k)
    IN  [comment_id |-> comment.comment_id,
         structured_sections |-> comment.structured_sections,
         created_at |-> comment.created_at,
         attributes_json |-> comment.attributes_json,
         parsed_content |-> parsed,
         original_text |-> OrElse(OrElse(G("comment"), G("commentText")), EmptyStr),
         submitter_name |-> OrElse(G("submitterName"), EmptyStr),
         organization_name |-> OrElse(G("organization"), EmptyStr)]

----------------------------------------------------------------------------
\* The store as the queries see it

TableNames == {"comments", "condensed_comments", "entity_taxonomy",
               "comment_entities", "theme_hierarchy", "comment_themes"}

\* the values of condensed_comments.status
Completed == <<"c", "o", "m", "p", "l", "e", "t", "e", "d">>
Pending == <<"p", "e", "n", "d", "i", "n", "g">>
Failed == <<"f", "a", "i", "l", "e", "d">>

\* a bulk row: a completed analysis with no sections and no raw submission
PlainRow == [status |-> Completed, structured_sections |-> NullCol,
             attributes_json |-> NullCol]

\* condensed_comments LEFT JOIN comments, in insertion order; comment_id and
\* created_at are the insertion number
JoinedRows(d) ==
    LET n == Len(d.rows) + d.extra
    IN  [i \in 1..n |->
            LET r == IF i <= Len(d.rows) THEN d.rows[i] ELSE PlainRow
            IN  [comment_id |-> i, status |-> r.status,
                 structured_sections |-> r.structured_sections,
                 created_at |-> i, attributes_json |-> r.attributes_json]]

Reverse(s) == [i \in 1..Len(s) |-> s[Len(s) + 1 - i]]

\* LIKE is case-insensitive on ASCII letters
FoldCase(ch) ==
    CASE ch = "A" -> "a" [] ch = "B" -> "b" [] ch = "C" -> "c" [] ch = "D" -> "d"
      [] ch = "E" -> "e" [] ch = "F" -> "f" [] ch = "G" -> "g" [] ch = "H" -> "h"
      [] ch = "I" -> "i" [] ch = "J" -> "j" [] ch = "K" -> "k" [] ch = "L" -> "l"
      [] ch = "M" -> "m" [] ch = "N" -> "n" [] ch = "O" -> "o" [] ch = "P" -> "p"
      [] ch = "Q" -> "q" [] ch = "R" -> "r" [] ch = "S" -> "s" [] ch = "T" -> "t"
      [] ch = "U" -> "u" [] ch = "V" -> "v" [] ch = "W" -> "w" [] ch = "X" -> "x"
      [] ch = "Y" -> "y" [] ch = "Z" -> "z"
      [] OTHER -> ch

FoldAll(s) == [i \in 1..Len(s) |-> FoldCase(s[i])]

IsInfix(needle, s) ==
    \E i \in 0..(Len(s) - Len(needle)) :
        \A j \in 1..Len(needle) : s[i + j] = needle[j]

\* the string values that a column's text contains
StringLeaves(col) ==
    IF col.k # "json" THEN {}
    ELSE LET v == col.v
         IN  CASE v.t = "str" -> {v.s}
               [] v.t = "obj" ->
                    UNION {IF v.o[k].t = "str" THEN {v.o[k].s}
                           ELSE IF v.o[k].t = "arr"
                                THEN {v.o[k].a[i].s : i \in 1..Len(v.o[k].a)}
                                ELSE {} : k \in DOMAIN v.o}
               [] OTHER -> {}

\* col LIKE '%needle%' (NULL LIKE anything is not true)
Like(col, pattern) ==
    LET needle == SubSeq(pattern.s, 2, Len(pattern.s) - 1)
    IN  \E s \in StringLeaves(col) : IsInfix(FoldAll(needle), FoldAll(s))

\* number of ? placeholders of a predicate fragment
Placeholders(frag) ==
    CASE frag = "status" -> 1 [] frag = "search" -> 2 [] frag = "entity" -> 1

RECURSIVE PlaceholderCount(_)
PlaceholderCount(where) ==
    IF where = <<>> THEN 0
    ELSE Placeholders(Head(where)) + PlaceholderCount(Tail(where))

\* the WHERE clause evaluated on one row, parameters bound by position
RECURSIVE WhereHolds(_, _, _)
WhereHolds(row, where, params) ==
    IF where = <<>> THEN TRUE
    ELSE LET frag == Head(where)
             rest == SubSeq(params, Placeholders(frag) + 1, Len(params))
             here ==
                CASE frag = "status" ->
                        params[1].t = "str" /\ params[1].s = row.status
                  [] frag = "search" ->
                        Like(row.attributes_json, params[1])
                        \/ Like(row.structured_sections, params[2])
                  [] frag = "entity" ->
                        Like(row.structured_sections, params[1])
             IN  here /\ WhereHolds(row, Tail(where), rest)

Matching(d, where, params) ==
    LET Test(row) == WhereHolds(row, where, params)
    IN  SelectSeq(JoinedRows(d), Test)

\* LIMIT l OFFSET o: a negative limit is no limit, a negative offset is 0
LimitOffset(s, l, o) ==
    LET from == IF o < 0 THEN 0 ELSE o
        upto == IF l < 0 \/ from + l > Len(s) THEN Len(s) ELSE from + l
    IN  SubSeq(s, from + 1, upto)

\* the listing's page query binds where's parameters, then limit and offset
PageQueryThrows(d, where, params) ==
    \/ ~({"condensed_comments", "comments"} \subseteq d.tables)
    \/ Len(params) # PlaceholderCount(where) + 2
    \/ params[Len(params) - 1].t # "num"
    \/ params[Len(params)].t # "num"

PageQueryRows(d, where, params) ==
    LimitOffset(Reverse(Matching(d, where, SubSeq(params, 1, Len(params) - 2))),
                params[Len(params) - 1].n, params[Len(params)].n)

CountQueryThrows(d, where, params) ==
    \/ ~({"condensed_comments", "comments"} \subseteq d.tables)
    \/ Len(params) # PlaceholderCount(where)

CountQueryTotal(d, where, params) == Len(Matching(d, where, params))

----------------------------------------------------------------------------
\* Handler state shared by the routes

Idle == [h |-> "none", at |-> "idle"]
At(h, step) == pc = [h |-> h, at |-> step]
Goto(h, step) == pc' = [h |-> h, at |-> step]

NoQuery == [issued |-> FALSE, where |-> <<>>, params |-> <<>>]
NoOutcome == [kind |-> "none"]
Return(status, body) == [kind |-> "return", status |-> status, body |-> body]
Throw(error) == [kind |-> "throw", error |-> error]
NoResp == [status |-> 0]

LocInit ==
    [offset |-> Undefined, whereClause |-> <<>>, params |-> <<>>,
     pageQuery |-> NoQuery, countQuery |-> NoQuery,
     comments |-> <<>>, total |-> 0, found |-> FALSE, count |-> 0,
     entityMap |-> <<>>, entities |-> <<>>, themes |-> <<>>,
     entityCount |-> 0, themeCount |-> 0, totalComments |-> 0,
     outcome |-> NoOutcome]

NoQueryParams ==
    [page |-> Undefined, limit |-> Undefined, search |-> Undefined,
     entity |-> Undefined, status |-> Undefined]

\* a request arrives: app.get(route, handler) starts the handler
Receive(route, query, id) ==
    /\ pc.at \in {"idle", "done"}
    /\ req' = [route |-> route, query |-> query, id |-> id]
    /\ Goto(route, "getDb")
    /\ loc' = LocInit
    /\ resp' = NoResp
    /\ closes' = 0
    /\ probes' = 0
    /\ scans' = 0
    /\ UNCHANGED <<db, conn>>

\* const db = getDb(): new Database(DB_PATH), rethrown as "Could not connect"
getDb ==
    /\ pc.at = "getDb"
    /\ IF db.openable
       THEN /\ conn' = conn + 1
            /\ Goto(pc.h, "body")
            /\ UNCHANGED loc
       ELSE /\ loc' = [loc EXCEPT !.outcome = Throw("Could not connect to database")]
            /\ Goto(pc.h, "respond")
            /\ UNCHANGED conn
    /\ UNCHANGED <<db, req, closes, resp, probes, scans>>

\* finally { db.close(); }
Finally ==
    /\ pc.at = "finally"
    /\ conn' = conn - 1
    /\ closes' = closes + 1
    /\ Goto(pc.h, "respond")
    /\ UNCHANGED <<db, req, loc, resp, probes, scans>>

\* the handler's return value, or the error middleware's 500 for a throw
Respond ==
    /\ pc.at = "respond"
    /\ resp' = IF loc.outcome.kind = "return"
               THEN [status |-> loc.outcome.status, body |-> loc.outcome.body]
               ELSE [status |-> 500,
                     body |-> [success |-> FALSE, error |-> loc.outcome.error]]
    /\ Goto(pc.h, "done")
    /\ UNCHANGED <<db, req, conn, closes, loc, probes, scans>>

\* Leave without the finally block on the throwing path
LeaveUnguarded(h, outcome, l) ==
    /\ loc' = [l EXCEPT !.outcome = outcome]
    /\ Goto(h, IF outcome.kind = "throw" THEN "respond" ELSE "finally")

\* a step of a try block ends the block: by return or by throw
Leave(h, outcome, l) ==
    /\ loc' = [l EXCEPT !.outcome = outcome]
    /\ Goto(h, "finally")

----------------------------------------------------------------------------
\* GET /api/comments

Default(v, d) == IF v.t = "undefined" THEN d ELSE v

Percent(v) == Str(<<"%">> \o ToStringChars(v) \o <<"%">>)

\* the destructured query, offset, whereClause and params of the listing
CommentsQuery(q) ==
    LET page == Default(q.page, Num(1))
        limit == Default(q.limit, Num(20))
        search == Default(q.search, EmptyStr)
        entity == Default(q.entity, EmptyStr)
        status == Default(q.status, Str(Completed))
        offset == OffsetOf(parseInt(page), parseInt(limit))
        where1 == <<"status">>
        params1 == <<status>>
        where2 == IF Truthy(search) THEN where1 \o <<"search">> ELSE where1
        params2 == IF Truthy(search)
                   THEN params1 \o <<Percent(search), Percent(search)>>
                   ELSE params1
        where3 == IF Truthy(entity) THEN where2 \o <<"entity">> ELSE where2
        params3 == IF Truthy(entity) THEN params2 \o <<Percent(entity)>> ELSE params2
    IN  [page |-> page, limit |-> limit, offset |-> offset,
         whereClause |-> where3,
         params |-> params3 \o <<parseInt(limit), offset>>]

\* lines 126-167: build the predicate and the parameter list
CommentsBuild ==
    /\ At("comments", "body")
    /\ LET b == CommentsQuery(req.query)
       IN  loc' = [loc EXCEPT !.offset = b.offset,
                              !.whereClause = b.whereClause,
                              !.params = b.params]
    /\ Goto("comments", "page")
    /\ UNCHANGED <<db, req, conn, closes, resp, probes, scans>>

\* line 168: db.prepare(query).all(...params)
CommentsPage ==
    /\ At("comments", "page")
    /\ LET l == [loc EXCEPT !.pageQuery =
                    [issued |-> TRUE, where |-> loc.whereClause, params |-> loc.params]]
       IN  IF PageQueryThrows(db, loc.whereClause, loc.params)
           THEN Leave("comments", Throw("query failed"), l)
           ELSE /\ loc' = [l EXCEPT !.comments =
                              PageQueryRows(db, loc.whereClause, loc.params)]
                /\ Goto("comments", "count")
    /\ UNCHANGED <<db, req, conn, closes, resp, probes, scans>>

\* params.slice(0, -1)
SliceOffLastOne(params) == SubSeq(params, 1, Len(params) - 1)

\* params.slice(0, -2)
SliceOffLastTwo(params) == SubSeq(params, 1, Len(params) - 2)

\* lines 171-178: db.prepare(countQuery).get(...params.slice(0, -2))?.total || 0
CommentsCount ==
    /\ At("comments", "count")
    /\ LET cp == SliceOffLastTwo(loc.params)
           l == [loc EXCEPT !.countQuery =
                    [issued |-> TRUE, where |-> loc.whereClause, params |-> cp]]
       IN  IF CountQueryThrows(db, loc.whereClause, cp)
           THEN Leave("comments", Throw("query failed"), l)
           ELSE /\ loc' = [l EXCEPT !.total = CountQueryTotal(db, loc.whereClause, cp)]
                /\ Goto("comments", "process")
    /\ UNCHANGED <<db, req, conn, closes, resp, probes, scans>>

\* the pagination block of the listing's response
Pagination(q, total) ==
    LET page == Default(q.page, Num(1))
        limit == Default(q.limit, Num(20))
    IN  [page |-> parseInt(page), limit |-> parseInt(limit), total |-> total,
         totalPages |-> MathCeilDiv(total, parseInt(limit))]

\* lines 181-223: normalise the page and answer
CommentsProcess ==
    /\ At("comments", "process")
    /\ IF \E i \in 1..Len(loc.comments) : NormalizeThrows(loc.comments[i])
       THEN Leave("comments", Throw("TypeError"), loc)
       ELSE Leave("comments",
                  Return(200, [success |-> TRUE,
                               data |-> [comments |->
                                            [i \in 1..Len(loc.comments) |->
                                                extractedComment(loc.comments[i])],
                                         pagination |-> Pagination(req.query, loc.total)]]),
                  loc)
    /\ UNCHANGED <<db, req, conn, closes, resp, probes, scans>>

----------------------------------------------------------------------------
\* GET /api/comments/:id

\* lines 236-251: look the comment up; 404 when there is none
CommentSelect ==
    /\ At("comment", "body")
    /\ IF ~({"condensed_comments", "comments"} \subseteq db.tables)
       THEN Leave("comment", Throw("query failed"), loc)
       ELSE LET rows == JoinedRows(db)
                hit == {i \in 1..Len(rows) : rows[i].comment_id = req.id}
            IN  IF hit = {}
                THEN Leave("comment",
                           Return(404, [success |-> FALSE, error |-> "Comment not found"]),
                           loc)
                ELSE /\ loc' = [loc EXCEPT !.found = TRUE,
                                           !.comments = <<rows[CHOOSE i \in hit : TRUE]>>]
                     /\ Goto("comment", "process")
    /\ UNCHANGED <<db, req, conn, closes, resp, probes, scans>>

\* lines 253-282: normalise the row and answer
CommentProcess ==
    /\ At("comment", "process")
    /\ IF NormalizeThrows(loc.comments[1])
       THEN Leave("comment", Throw("TypeError"), loc)
       ELSE Leave("comment",
                  Return(200, [success |-> TRUE,
                               data |-> processedComment(loc.comments[1])]),
                  loc)
    /\ UNCHANGED <<db, req, conn, closes, resp, probes, scans>>

----------------------------------------------------------------------------
\* GET /api/export

ExportCeiling == 100

\* rows of condensed_comments with status = 'completed', as joined rows
CompletedRows(d) ==
    LET Test(row) == row.status = Completed
    IN  SelectSeq(JoinedRows(d), Test)

\* lines 422-430: count the completed analyses, refuse above the ceiling
ExportCount ==
    /\ At("export", "body")
    /\ IF "condensed_comments" \notin db.tables
       THEN Leave("export", Throw("query failed"), loc)
       ELSE LET count == Len(CompletedRows(db))
                l == [loc EXCEPT !.count = count]
            IN  IF count > ExportCeiling
                THEN Leave("export",
                           Return(400, [success |-> FALSE,
                                        error |-> "Dataset too large for direct export",
                                        totalComments |-> count]),
                           l)
                ELSE /\ loc' = l
                     /\ Goto("export", "select")
    /\ UNCHANGED <<db, req, conn, closes, resp, probes, scans>>

\* lines 432-442: select every completed analysis, newest first
ExportSelect ==
    /\ At("export", "select")
    /\ IF ~({"condensed_comments", "comments"} \subseteq db.tables)
       THEN Leave("export", Throw("query failed"), loc)
       ELSE /\ loc' = [loc EXCEPT !.comments = Reverse(CompletedRows(db))]
            /\ Goto("export", "process")
    /\ UNCHANGED <<db, req, conn, closes, resp, probes, scans>>

\* lines 444-476: normalise every row and answer
ExportProcess ==
    /\ At("export", "process")
    /\ IF \E i \in 1..Len(loc.comments) : NormalizeThrows(loc.comments[i])
       THEN Leave("export", Throw("TypeError"), loc)
       ELSE LET processedComments ==
                    [i \in 1..Len(loc.comments) |-> exportedComment(loc.comments[i])]
            IN  Leave("export",
                      Return(200, [success |-> TRUE,
                                   data |-> [comments |-> processedComments,
                                             totalComments |-> Len(processedComments)]]),
                      loc)
    /\ UNCHANGED <<db, req, conn, closes, resp, probes, scans>>

----------------------------------------------------------------------------
\* GET /api/themes and GET /api/stats

\* lines 390-411: the theme query, an empty list when the tables are missing
ThemesBody ==
    /\ At("themes", "body")
    /\ LET themes == IF {"theme_hierarchy", "comment_themes"} \subseteq db.tables
                     THEN db.themes ELSE <<>>
       IN  Leave("themes", Return(200, [success |-> TRUE, data |-> themes]),
                 [loc EXCEPT !.themes = themes])
    /\ UNCHANGED <<db, req, conn, closes, resp, probes, scans>>

CountStatus(d, status) ==
    Cardinality({i \in 1..Len(JoinedRows(d)) : JoinedRows(d)[i].status = status})

\* Math.round((a / b) * 100) for b > 0
RoundPercent(a, b) == (200 * a + b) \div (2 * b)

\* lines 76-115: the counts of the statistics
StatsBody ==
    /\ At("stats", "body")
    /\ IF ~({"condensed_comments", "comments"} \subseteq db.tables)
       THEN Leave("stats", Throw("query failed"), loc)
       ELSE LET totalComments ==
                    Cardinality({i \in 1..Len(db.rows) :
                                    db.rows[i].attributes_json.k # "NULL"})
                condensedComments == CountStatus(db, Completed)
                entityCount == IF "entity_taxonomy" \in db.tables
                               THEN Len(db.taxonomy) ELSE 0
                themeCount == IF "theme_hierarchy" \in db.tables
                              THEN Len(db.themes) ELSE 0
            IN  Leave("stats",
                      Return(200, [success |-> TRUE,
                                   data |-> [totalComments |-> totalComments,
                                             condensedComments |-> condensedComments,
                                             entities |-> entityCount,
                                             themes |-> themeCount,
                                             processing |->
                                                [pending |-> CountStatus(db, Pending),
                                                 completed |-> condensedComments,
                                                 failed |-> CountStatus(db, Failed)],
                                             completionRate |->
                                                IF totalComments > 0
                                                THEN RoundPercent(condensedComments,
                                                                  totalComments)
                                                ELSE 0]]),
                      [loc EXCEPT !.totalComments = totalComments,
                                  !.entityCount = entityCount,
                                  !.themeCount = themeCount])
    /\ UNCHANGED <<db, req, conn, closes, resp, probes, scans>>

----------------------------------------------------------------------------
\* Fallback mining: the text operations

Upper ==
    {
     "A", "B", "C", "D", "E", "F", "G", "H", "I", "J", "K", "L", "M", "N",
     "O", "P", "Q", "R", "S", "T", "U", "V", "W", "X", "Y", "Z"}

Lower ==
    {
     "a", "b", "c", "d", "e", "f", "g", "h", "i", "j", "k", "l", "m", "n",
     "o", "p", "q", "r", "s", "t", "u", "v", "w", "x", "y", "z"}

WordChar == Upper \cup Lower \cup Digits \cup {"_"}

\* String.prototype.trim over the blanks the inputs use
RECURSIVE DropTrailing(_)
DropTrailing(s) ==
    IF s # <<>> /\ s[Len(s)] = " " THEN DropTrailing(SubSeq(s, 1, Len(s) - 1)) ELSE s

Trim(s) == DropTrailing(SkipSpaces(s))

\* the suffix vocabulary of orgPatterns
OrgSuffixes ==
    {
     <<"H", "e", "a", "l", "t", "h">>,
     <<"M", "e", "d", "i", "c", "a", "l">>,
     <<"A", "s", "s", "o", "c", "i", "a", "t", "i", "o", "n">>,
     <<"C", "o", "r", "p">>,
     <<"I", "n", "c">>,
     <<"L", "L", "C">>,
     <<"C", "o", "m", "p", "a", "n", "y">>,
     <<"G", "r", "o", "u", "p">>,
     <<"S", "y", "s", "t", "e", "m", "s">>,
     <<"A", "d", "m", "i", "n", "i", "s", "t", "r", "a", "t", "i", "o", "n">>,
     <<"I", "n", "s", "t", "i", "t", "u", "t", "e">>,
     <<"F", "o", "u", "n", "d", "a", "t", "i", "o", "n">>,
     <<"S", "o", "c", "i", "e", "t", "y">>,
     <<"C", "o", "a", "l", "i", "t", "i", "o", "n">>,
     <<"A", "l", "l", "i", "a", "n", "c", "e">>,
     <<"U", "n", "i", "o", "n">>,
     <<"F", "e", "d", "e", "r", "a", "t", "i", "o", "n">>}

HasAt(s, i, w) ==
    /\ i + Len(w) - 1 <= Len(s)
    /\ \A j \in 1..Len(w) : s[i + j - 1] = w[j]

\* \b between position i - 1 and i of s
WordBoundary(s, i) ==
    LET before == i > 1 /\ s[i - 1] \in WordChar
        after == i <= Len(s) /\ s[i] \in WordChar
    IN  before # after

\* end of the longest run of [a-z] that starts at i (i - 1 when there is none)
RECURSIVE LowerRunEnd(_, _)
LowerRunEnd(s, i) ==
    IF i <= Len(s) /\ s[i] \in Lower THEN LowerRunEnd(s, i + 1) ELSE i - 1

\* the ends of the matches of orgPatterns that start at i
OrgMatchEnds(s, i) ==
    IF ~(WordBoundary(s, i) /\ i <= Len(s) /\ s[i] \in Upper) THEN {}
    ELSE LET e == LowerRunEnd(s, i + 1)
         IN  IF e < i + 1 \/ e + 1 > Len(s) \/ s[e + 1] # " " THEN {}
             ELSE {e + 1 + Len(w) : w \in {x \in OrgSuffixes :
                        HasAt(s, e + 2, x) /\ WordBoundary(s, e + 2 + Len(x))}}

\* detailedContent.match(orgPatterns): the matches from i on, left to right
RECURSIVE OrgMatches(_, _)
OrgMatches(s, i) ==
    IF i > Len(s) THEN <<>>
    ELSE LET ends == OrgMatchEnds(s, i)
         IN  IF ends = {} THEN OrgMatches(s, i + 1)
             ELSE LET e == CHOOSE x \in ends : TRUE
                  IN  <<SubSeq(s, i, e)>> \o OrgMatches(s, e + 1)

----------------------------------------------------------------------------
\* Fallback mining: the accumulator (a Map, kept in insertion order)

HasKey(map, key) == \E i \in 1..Len(map) : map[i].name = key

\* if (!entityMap.has(key)) entityMap.set(key, {name, count: 0, type});
\* entityMap.get(key).count++
Bump(map, key, type) ==
    IF HasKey(map, key)
    THEN [i \in 1..Len(map) |->
            IF map[i].name = key THEN [map[i] EXCEPT !.count = @ + 1] ELSE map[i]]
    ELSE Append(map, [name |-> key, count |-> 1, type |-> type])

\* AddKeyPoints that counts a key point once per comment however often the
\* comment lists it
RECURSIVE AddKeyPointsOncePerComment(_, _)
AddKeyPointsOncePerComment(map, points) ==
    IF points = <<>> THEN map
    ELSE LET key == Trim(Head(points).s)
             again == \E j \in 2..Len(points) : Trim(points[j].s) = key
             next == IF key # <<>> /\ Len(key) > 2 /\ ~again
                     THEN Bump(map, key, "keypoint") ELSE map
         IN  AddKeyPointsOncePerComment(next, Tail(points))

\* parsed.keyPoints.forEach(point => ...): trimmed, longer than 2
RECURSIVE AddKeyPoints(_, _)
AddKeyPoints(map, points) ==
    IF points = <<>> THEN map
    ELSE LET key == Trim(Head(points).s)
             next == IF key # <<>> /\ Len(key) > 2
                     THEN Bump(map, key, "keypoint") ELSE map
         IN  AddKeyPoints(next, Tail(points))

\* orgMatches.forEach(org => ...)
RECURSIVE AddOrganizations(_, _)
AddOrganizations(map, orgs) ==
    IF orgs = <<>> THEN map
    ELSE AddOrganizations(Bump(map, Trim(Head(orgs)), "organization"), Tail(orgs))

\* the body of comments.forEach: a throw leaves the map as it is
MineComment(map, comment) ==
    IF ParseThrows(comment.structured_sections) THEN map
    ELSE LET parsed == ParseValue(comment.structured_sections)
         IN  IF ~CanRead(parsed) THEN map
             ELSE LET keyPoints == GetProp(parsed, "keyPoints")
                      category == GetProp(parsed, "category")
                      detailedContent == GetProp(parsed, "detailedContent")
                      m1 == IF Truthy(keyPoints) /\ keyPoints.t = "arr"
                            THEN AddKeyPoints(map, keyPoints.a) ELSE map
                      m2 == IF Truthy(category)
                            THEN Bump(m1, Trim(category.s), "category") ELSE m1
                      m3 == IF Truthy(detailedContent)
                            THEN AddOrganizations(m2, OrgMatches(detailedContent.s, 1))
                            ELSE m2
                  IN  m3

RECURSIVE MineAll(_, _)
MineAll(map, comments) ==
    IF comments = <<>> THEN map
    ELSE MineAll(MineComment(map, Head(comments)), Tail(comments))

\* InsertByCount of a sort that is not stable: x goes ahead of its equals
InsertByCountAhead(sorted, x) ==
    LET ahead == Cardinality({i \in 1..Len(sorted) : sorted[i].count > x.count})
    IN  SubSeq(sorted, 1, ahead) \o <<x>> \o SubSeq(sorted, ahead + 1, Len(sorted))

\* Array.prototype.sort((a, b) => b.count - a.count) is stable: x goes
\* behind every element whose count is at least its own
InsertByCount(sorted, x) ==
    LET ahead == Cardinality({i \in 1..Len(sorted) : sorted[i].count >= x.count})
    IN  SubSeq(sorted, 1, ahead) \o <<x>> \o SubSeq(sorted, ahead + 1, Len(sorted))

RECURSIVE SortByCount(_, _)
SortByCount(sorted, rest) ==
    IF rest = <<>> THEN sorted
    ELSE SortByCount(InsertByCount(sorted, Head(rest)), Tail(rest))

\* lines 366-373: values -> filter(count > 0) -> sort -> map
RankEntities(map) ==
    LET Test(e) == e.count > 0
        kept == SelectSeq(map, Test)
        sorted == SortByCount(<<>>, kept)
    IN  [i \in 1..Len(sorted) |->
            [entity_name |-> sorted[i].name,
             entity_type |-> sorted[i].type,
             comment_count |-> sorted[i].count]]

----------------------------------------------------------------------------
\* GET /api/entities

\* the taxonomy query: entries with at least one association
TaxonomyRows(d) ==
    LET Test(e) == e.comment_count > 0
    IN  SelectSeq(d.taxonomy, Test)

\* lines 295-311: the taxonomy query; its failure starts the fallback
EntitiesProbe ==
    /\ At("entities", "body")
    /\ probes' = probes + 1
    /\ IF {"entity_taxonomy", "comment_entities"} \subseteq db.tables
       THEN LET entities == TaxonomyRows(db)
            IN  Leave("entities", Return(200, [success |-> TRUE, data |-> entities]),
                      [loc EXCEPT !.entities = entities])
       ELSE /\ Goto("entities", "scan")
            /\ UNCHANGED loc
    /\ UNCHANGED <<db, req, conn, closes, resp, scans>>

\* EntitiesScan that goes back to the taxonomy query when the scan fails
EntitiesScanRetry ==
    /\ At("entities", "scan")
    /\ scans' = scans + 1
    /\ IF "condensed_comments" \notin db.tables
       THEN /\ Goto("entities", "body")
            /\ UNCHANGED loc
       ELSE /\ loc' = [loc EXCEPT !.comments = <<>>]
            /\ Goto("entities", "mine")
    /\ UNCHANGED <<db, req, conn, closes, resp, probes>>

\* lines 313-317: completed analyses whose structured_sections is not NULL
EntitiesScan ==
    /\ At("entities", "scan")
    /\ scans' = scans + 1
    /\ IF "condensed_comments" \notin db.tables
       THEN Leave("entities", Throw("query failed"), loc)
       ELSE LET Test(row) == row.structured_sections.k # "NULL"
                kept == SelectSeq(CompletedRows(db), Test)
            IN  /\ loc' = [loc EXCEPT !.comments =
                              [i \in 1..Len(kept) |->
                                  [comment_id |-> kept[i].comment_id,
                                   structured_sections |-> kept[i].structured_sections]]]
                /\ Goto("entities", "mine")
    /\ UNCHANGED <<db, req, conn, closes, resp, probes>>

\* lines 319-364: accumulate the entities of every scanned comment
EntitiesMine ==
    /\ At("entities", "mine")
    /\ loc' = [loc EXCEPT !.entityMap = MineAll(<<>>, loc.comments)]
    /\ Goto("entities", "rank")
    /\ UNCHANGED <<db, req, conn, closes, resp, probes, scans>>

\* lines 366-379: rank the accumulator and answer
EntitiesRank ==
    /\ At("entities", "rank")
    /\ LET entities == RankEntities(loc.entityMap)
       IN  Leave("entities", Return(200, [success |-> TRUE, data |-> entities]),
                 [loc EXCEPT !.entities = entities])
    /\ UNCHANGED <<db, req, conn, closes, resp, probes, scans>>

----------------------------------------------------------------------------
\* The stores and requests the handlers are run on

AllTables == TableNames
NoTaxonomy == TableNames \ {"entity_taxonomy", "comment_entities"}
NoThemes == TableNames \ {"theme_hierarchy", "comment_themes"}
NoCondensed == TableNames \ {"condensed_comments"}
NoComments == TableNames \ {"comments"}

SeqsUpTo(S, n) == UNION {[1..k -> S] : k \in 0..n}

OneEntity ==
    <<[entity_id |-> 1, entity_name |-> <<"A", "c", "m", "e">>, entity_type |-> "taxonomy",
       comment_count |-> 2],
      [entity_id |-> 2, entity_name |-> <<"Z", "e", "d">>, entity_type |-> "taxonomy",
       comment_count |-> 0]>>

OneTheme ==
    <<[theme_id |-> 1, theme_name |-> <<"C", "o", "s", "t">>, theme_description |-> <<>>,
       comment_count |-> 1]>>

\* structured_sections texts
SecCostCare ==
    Json(Obj([keyPoints |-> Arr(<<Str(<<"F", "e", "e">>), Str(<<"C", "o", "s", "t">>), Str(<<"C", "o", "s", "t", " ">>)>>),
              category |-> Str(<<"C", "a", "r", "e">>)]))
SecCaseTax ==
    Json(Obj([keyPoints |-> Arr(<<Str(<<"c", "o", "s", "t">>), Str(<<"T", "a", "x">>), Str(<<"a", "b">>)>>),
              category |-> Str(<<"C", "o", "s", "t">>)]))
SecAcme ==
    Json(Obj([keyPoints |-> Arr(<<Str(<<"T", "a", "x">>)>>),
              category |-> Str(<<"A", "c", "m", "e", " ", "H", "e", "a", "l", "t", "h">>),
              detailedContent |->
                Str(<<"A", "c", "m", "e", " ", "H", "e", "a", "l", "t", "h", ",", " ", "A", "c", "m", "e", " ", "H", "e", "a", "l", "t", "h", " ", "G", "r", "o", "u", "p">>)]))
SecOrgs ==
    Json(Obj([detailedContent |->
                Str(<<"A", "c", "m", "e", " ", "C", "o", "r", "p", "o", "r", "a", "t", "i", "o", "n", " ", "a", "c", "m", "e", " ", "H", "e", "a", "l", "t", "h", " ", "Z", "e", "d", " ", "L", "L", "C">>)]))
SecCareBlank == Json(Obj([category |-> Str(<<"C", "a", "r", "e", " ">>)]))
SecThree ==
    Json(Obj([keyPoints |-> Arr(<<Str(<<"T", "a", "x">>), Str(<<"F", "e", "e">>), Str(<<"C", "o", "s", "t">>)>>)]))

SectionsPool ==
    {SecCostCare, SecCaseTax, SecAcme, SecOrgs, SecCareBlank, SecThree,
     Json(EmptyObj), Json(JsNull), Malformed, EmptyText, NullCol}

\* attributes_json texts: the keys of the priority chains
Chains ==
    {<<"comment", "commentText", "content">>,
     <<"submitterName", "firstName", "lastName">>,
     <<"organization", "organizationName">>,
     <<"postedDate", "submissionDate", "datePosted">>,
     <<"commentURL", "url">>}

\* the non-empty value a key holds when it holds one: distinct per key
KeyValue(k) ==
    CASE k = "comment" -> <<"c">> [] k = "commentText" -> <<"t">>
      [] k = "content" -> <<"n">> [] k = "submitterName" -> <<"s">>
      [] k = "firstName" -> <<"A", "n", "n">> [] k = "lastName" -> <<"L", "e", "e">>
      [] k = "organization" -> <<"o">> [] k = "organizationName" -> <<"g">>
      [] k = "postedDate" -> <<"1">> [] k = "submissionDate" -> <<"2">>
      [] k = "datePosted" -> <<"3">> [] k = "commentURL" -> <<"u">>
      [] k = "url" -> <<"r">>

Range(f) == {f[i] : i \in DOMAIN f}

\* every object over the keys of one chain, each key absent, '' or set
ChainObjects(chain) ==
    UNION {{Obj(f) : f \in {g \in [D -> {EmptyStr} \cup {Str(KeyValue(k)) : k \in D}] :
                               \A k \in D : g[k] \in {EmptyStr, Str(KeyValue(k))}}}
           : D \in SUBSET Range(chain)}

AttributesPool ==
    UNION {{Json(o) : o \in ChainObjects(c)} : c \in Chains}
    \cup {Json(Obj([comment |-> JsNull, commentText |-> Str(KeyValue("commentText"))])),
          Json(JsNull), Json(Num(5)), Json(Arr(<<>>)), Json(Str(<<"x">>)),
          Malformed, EmptyText, NullCol}

Row(status, sections, attributes) ==
    [status |-> status, structured_sections |-> sections, attributes_json |-> attributes]

Stores(openables, tableSets, rowPool, maxRows, extras) ==
    {[openable |-> o, tables |-> t, rows |-> r, extra |-> x,
      taxonomy |-> OneEntity, themes |-> OneTheme] :
        o \in openables, t \in tableSets, r \in SeqsUpTo(rowPool, maxRows),
        x \in extras}

BasicRows ==
    {Row(Completed, SecCostCare, Json(Obj([comment |-> Str(<<"c">>)]))),
     Row(Pending, Malformed, NullCol),
     Row(Completed, SecAcme, Json(JsNull))}

ExportRows ==
    {Row(Completed, SecCostCare, Json(Obj([comment |-> Str(<<"c">>),
                                           submitterName |-> Str(<<"s">>)]))),
     Row(Completed, Malformed, Malformed),
     Row(Pending, SecAcme, NullCol),
     Row(Failed, Json(EmptyObj), Json(Num(5))),
     Row(Completed, Json(EmptyObj), Json(JsNull))}

MiningRows ==
    {Row(Completed, sec, NullCol) : sec \in SectionsPool}
    \cup {Row(Pending, SecCostCare, NullCol)}

NormRows ==
    {Row(Completed, Json(EmptyObj), a) : a \in AttributesPool}
    \cup {Row(Completed, sec, a) :
            sec \in {NullCol, EmptyText, Malformed, Json(JsNull), Json(Num(5)),
                     Json(Arr(<<>>))},
            a \in {NullCol, EmptyText, Malformed, Json(Num(5)), Json(Arr(<<>>)),
                   Json(Obj([comment |-> Str(<<"c">>)]))}}

ListingRows ==
    {Row(Completed, SecCostCare, Json(Obj([comment |-> Str(<<"c">>)]))),
     Row(Completed, SecAcme, NullCol),
     Row(Pending, Json(EmptyObj), Json(Obj([content |-> Str(<<"n">>)])))}

PageInputs ==
    {Undefined, Str(<<"0">>), Str(<<"1">>), Str(<<"2">>), Str(<<"-", "1">>),
     Str(<<"a", "b", "c">>)}
LimitInputs ==
    {Undefined, Str(<<"0">>), Str(<<" ", "1">>), Str(<<"2", "x">>), Str(<<"-", "1">>),
     Str(<<>>)}

ListingQueries ==
    {[page |-> p, limit |-> l, search |-> s, entity |-> e, status |-> st] :
        p \in PageInputs, l \in LimitInputs,
        s \in {Undefined, Str(<<"c">>)}, e \in {Undefined, Str(<<"t", "a", "x">>)},
        st \in {Undefined, Str(Pending)}}

BasicQueries ==
    {NoQueryParams,
     [NoQueryParams EXCEPT !.page = Str(<<"2">>), !.limit = Str(<<"1">>)]}

InitHandler ==
    /\ pc = Idle
    /\ req = [route |-> "none", query |-> NoQueryParams, id |-> 0]
    /\ conn = 0
    /\ closes = 0
    /\ loc = LocInit
    /\ resp = NoResp
    /\ probes = 0
    /\ scans = 0

----------------------------------------------------------------------------
\* The server: every route, on small stores

ReceiveStats == Receive("stats", NoQueryParams, 0)
ReceiveComments == \E q \in BasicQueries : Receive("comments", q, 0)
ReceiveListing == \E q \in ListingQueries : Receive("comments", q, 0)
ReceiveComment == \E id \in 1..(MaxRows + 1) : Receive("comment", NoQueryParams, id)
ReceiveEntities == Receive("entities", NoQueryParams, 0)
ReceiveThemes == Receive("themes", NoQueryParams, 0)
ReceiveExport == Receive("export", NoQueryParams, 0)

Init ==
    /\ db \in Stores(BOOLEAN,
                     {AllTables, NoTaxonomy, NoThemes, NoCondensed, NoComments,
                      NoTaxonomy \ {"condensed_comments"}},
                     BasicRows, MaxRows, {0, ExportCeiling + MaxExtra})
    /\ InitHandler

Next ==
    \/ ReceiveStats
    \/ ReceiveComments
    \/ ReceiveComment
    \/ ReceiveEntities
    \/ ReceiveThemes
    \/ ReceiveExport
    \/ getDb
    \/ StatsBody
    \/ CommentsBuild
    \/ CommentsPage
    \/ CommentsCount
    \/ CommentsProcess
    \/ CommentSelect
    \/ CommentProcess
    \/ EntitiesProbe
    \/ EntitiesScan
    \/ EntitiesMine
    \/ EntitiesRank
    \/ ThemesBody
    \/ ExportCount
    \/ ExportSelect
    \/ ExportProcess
    \/ Finally
    \/ Respond

Spec == Init /\ [][Next]_vars

\* the listing alone, on every page, limit, search and entity input
InitListing ==
    /\ db \in Stores({TRUE}, {AllTables, NoComments}, ListingRows, MaxRows, {0})
    /\ InitHandler

NextListing ==
    \/ ReceiveListing
    \/ getDb
    \/ CommentsBuild
    \/ CommentsPage
    \/ CommentsCount
    \/ CommentsProcess
    \/ Finally
    \/ Respond

SpecListing == InitListing /\ [][NextListing]_vars

\* normalisation alone: listing, lookup and export on every attributes text
InitComments ==
    /\ db \in Stores({TRUE}, {AllTables}, NormRows, MaxNormRows, {0})
    /\ InitHandler

NextComments ==
    \/ ReceiveComments
    \/ ReceiveComment
    \/ ReceiveExport
    \/ getDb
    \/ CommentsBuild
    \/ CommentsPage
    \/ CommentsCount
    \/ CommentsProcess
    \/ CommentSelect
    \/ CommentProcess
    \/ ExportCount
    \/ ExportSelect
    \/ ExportProcess
    \/ Finally
    \/ Respond

SpecComments == InitComments /\ [][NextComments]_vars

\* the entities route alone, on every scan of the sections pool
InitEntities ==
    /\ db \in Stores({TRUE},
                     {AllTables, NoTaxonomy, NoTaxonomy \ {"condensed_comments"}},
                     MiningRows, MaxRows, {0})
    /\ InitHandler

NextEntities ==
    \/ ReceiveEntities
    \/ getDb
    \/ EntitiesProbe
    \/ EntitiesScan
    \/ EntitiesMine
    \/ EntitiesRank
    \/ Finally
    \/ Respond

SpecEntities == InitEntities /\ [][NextEntities]_vars

\* the export alone, with row counts around the ceiling
InitExport ==
    /\ db \in Stores({TRUE}, {AllTables, NoComments, NoCondensed}, ExportRows, MaxRows,
                     {0} \cup (ExportCeiling - MaxRows)..(ExportCeiling + MaxExtra))
    /\ InitHandler

NextExport ==
    \/ ReceiveExport
    \/ getDb
    \/ ExportCount
    \/ ExportSelect
    \/ ExportProcess
    \/ Finally
    \/ Respond

SpecExport == InitExport /\ [][NextExport]_vars

----------------------------------------------------------------------------
\* Connection lifecycle

InTry == pc.at \notin {"idle", "getDb", "respond", "done"}

\* C1: in every request in which getDb succeeds the connection it opened is
\* closed exactly once before the handler finishes: a connection is open
\* exactly while the handler is inside its try block, and once the handler
\* has left it (by return, by 404 or 400, or by a throw) exactly one close
\* has been made and no connection is open.
ConnectionClosedExactlyOnce ==
    /\ conn \in {0, 1}
    /\ InTry => (conn = 1 /\ closes = 0 /\ db.openable)
    /\ (pc.at \in {"respond", "done"} /\ db.openable) => (conn = 0 /\ closes = 1)
    /\ ~db.openable => (conn = 0 /\ closes = 0)

\* a listing whose record processing threw has ended as a 500 with the
\* connection closed
ClosedAfterThrowInProcessing ==
    /\ pc = [h |-> "comments", at |-> "done"]
    /\ resp.status = 500
    /\ loc.outcome = Throw("TypeError")
    /\ closes = 1
    /\ conn = 0

----------------------------------------------------------------------------
\* Entities: probe and fallback

ProbeFails(d) == ~({"entity_taxonomy", "comment_entities"} \subseteq d.tables)

\* C10: an entities request issues the taxonomy query exactly once; the
\* fallback scan is issued only after that query failed, and at most once;
\* when the query succeeds its rows are the answer and nothing is scanned or
\* mined; when the fallback scan fails the request ends as a 500 without a
\* second query of either kind.
ProbeOnceFallbackOnce ==
    pc.h = "entities" =>
        /\ probes <= 1
        /\ scans <= 1
        /\ (pc.at \notin {"getDb", "body"} /\ db.openable) => probes = 1
        /\ scans = 1 => (probes = 1 /\ ProbeFails(db))
        /\ (pc.at = "done" /\ db.openable /\ ProbeFails(db)) => scans = 1
        /\ (pc.at = "done" /\ db.openable /\ ~ProbeFails(db)) =>
                /\ scans = 0
                /\ loc.comments = <<>>
                /\ loc.entityMap = <<>>
                /\ resp.status = 200
                /\ resp.body.data = TaxonomyRows(db)
        /\ (pc.at = "done" /\ db.openable /\ ProbeFails(db)
              /\ "condensed_comments" \notin db.tables) =>
                /\ resp.status = 500
                /\ loc.entityMap = <<>>

\* an entities request whose fallback scan failed has ended as a fault
FallbackScanFailed ==
    /\ pc = [h |-> "entities", at |-> "done"]
    /\ probes = 1
    /\ scans = 1
    /\ resp.status = 500

----------------------------------------------------------------------------
\* Export guard

\* the completed analyses of the store, by insertion number
EligibleIds(d) ==
    {i \in 1..Len(d.rows) : d.rows[i].status = Completed}
    \cup (Len(d.rows) + 1)..(Len(d.rows) + d.extra)

StoreAnswers(d) == {"condensed_comments", "comments"} \subseteq d.tables

\* C2: the export is refused exactly when more than 100 analyses are
\* completed; the refusal is a 400 that carries the true count and no data;
\* with at most 100 the export succeeds with exactly one record per completed
\* analysis, so never more than 100 records.
ExportRefusedExactlyAboveCeiling ==
    (pc = [h |-> "export", at |-> "done"] /\ StoreAnswers(db)) =>
        LET n == Cardinality(EligibleIds(db))
        IN  IF n > 100
            THEN /\ resp.status = 400
                 /\ resp.body.totalComments = n
                 /\ "data" \notin DOMAIN resp.body
            ELSE /\ resp.status = 200
                 /\ Len(resp.body.data.comments) = n
                 /\ n <= 100
                 /\ \A id \in EligibleIds(db) :
                        Cardinality({i \in 1..n :
                            resp.body.data.comments[i].comment_id = id}) = 1

----------------------------------------------------------------------------
\* Record normaliser

NormalizingRoutes == {"comments", "comment", "export"}

\* C5: normalisation never fails its caller: whatever texts the rows hold,
\* a listing, lookup or export on a store that answers its queries does not
\* end as a 500.
NormalizationNeverFails ==
    (pc.at = "done" /\ pc.h \in NormalizingRoutes /\ StoreAnswers(db) /\ db.openable)
        => resp.status # 500

ResolvedFields ==
    {"original_text", "submitter_name", "organization_name", "submission_date",
     "comment_url"}

AllFieldsEmpty(record) == \A f \in ResolvedFields : record[f] = EmptyStr

\* C6: a row whose attributes_json is malformed JSON comes out of the listing
\* and of the single lookup with every resolved field the empty string.
MalformedAttributesResolveEmpty ==
    /\ (pc = [h |-> "comments", at |-> "done"] /\ resp.status = 200) =>
            \A i \in 1..Len(resp.body.data.comments) :
                resp.body.data.comments[i].attributes_json = Malformed
                    => AllFieldsEmpty(resp.body.data.comments[i])
    /\ (pc = [h |-> "comment", at |-> "done"] /\ resp.status = 200) =>
            (resp.body.data.attributes_json = Malformed
                => AllFieldsEmpty(resp.body.data))

----------------------------------------------------------------------------
\* Pagination

\* C9: whatever page and limit are supplied, the offset bound into the page
\* query is a non-negative integer, the limit bound is at least 1, and the
\* pagination block of a listing reports page >= 1 and limit >= 1.
PaginationClamped ==
    /\ loc.pageQuery.issued =>
            LET ps == loc.pageQuery.params
            IN  /\ ps[Len(ps)].t = "num" /\ ps[Len(ps)].n >= 0
                /\ ps[Len(ps) - 1].t = "num" /\ ps[Len(ps) - 1].n >= 1
    /\ (pc = [h |-> "comments", at |-> "done"] /\ resp.status = 200) =>
            LET pg == resp.body.data.pagination
            IN  /\ pg.page.t = "num" /\ pg.page.n >= 1
                /\ pg.limit.t = "num" /\ pg.limit.n >= 1

----------------------------------------------------------------------------
\* Priority chains

\* the records a finished listing, lookup or export has returned
ReturnedRecords ==
    IF pc.at = "done" /\ resp.status = 200
    THEN CASE pc.h \in {"comments", "export"} -> Range(resp.body.data.comments)
           [] pc.h = "comment" -> {resp.body.data}
           [] OTHER -> {}
    ELSE {}

ChainField(chain) ==
    CASE chain[1] = "comment" -> "original_text"
      [] chain[1] = "submitterName" -> "submitter_name"
      [] chain[1] = "organization" -> "organization_name"
      [] chain[1] = "postedDate" -> "submission_date"
      [] chain[1] = "commentURL" -> "comment_url"

\* firstName and lastName together form the second entry of their chain
ChainRank(chain, k) ==
    IF k = "lastName" THEN 2 ELSE CHOOSE i \in 1..Len(chain) : chain[i] = k

\* hi is the highest-priority key of the chain present in m, and a
\* lower-priority key of the chain is present too
HighestOfSeveral(chain, m, hi) ==
    /\ hi \in Range(chain) \cap DOMAIN m
    /\ \A k \in Range(chain) \cap DOMAIN m : ChainRank(chain, hi) <= ChainRank(chain, k)
    /\ \E k \in Range(chain) \cap DOMAIN m : ChainRank(chain, hi) < ChainRank(chain, k)

\* C7 as stated: when a higher-priority and a lower-priority key of a field's
\* chain are both present, the resolved value is the higher-priority key's.
HigherPriorityKeyWins ==
    \A r \in ReturnedRecords :
        LET data == ParseOrEmpty(r.attributes_json)
        IN  data.t = "obj" =>
                \A chain \in Chains : \A hi \in Range(chain) :
                    (ChainField(chain) \in DOMAIN r /\ HighestOfSeveral(chain, data.o, hi))
                        => r[ChainField(chain)] = data.o[hi]

\* C7 as amended: when a higher-priority and a lower-priority key of a field's
\* chain are both present and the higher-priority key holds a non-empty value,
\* the resolved value is the higher-priority key's; a key that is present
\* with an empty or null value is passed over.
NonEmptyHigherPriorityKeyWins ==
    \A r \in ReturnedRecords :
        LET data == ParseOrEmpty(r.attributes_json)
        IN  data.t = "obj" =>
                \A chain \in Chains : \A hi \in Range(chain) :
                    (/\ ChainField(chain) \in DOMAIN r
                     /\ HighestOfSeveral(chain, data.o, hi)
                     /\ data.o[hi].t = "str"
                     /\ data.o[hi].s # <<>>)
                        => r[ChainField(chain)] = data.o[hi]

\* a listing has returned a record whose attributes hold both comment and
\* commentText, non-empty, and whose text is the value of comment
CommentBeatsCommentText ==
    /\ pc = [h |-> "comments", at |-> "done"]
    /\ \E r \in ReturnedRecords :
          /\ r.attributes_json =
                Json(Obj([comment |-> Str(KeyValue("comment")),
                          commentText |-> Str(KeyValue("commentText"))]))
          /\ r.original_text = Str(KeyValue("comment"))

----------------------------------------------------------------------------
\* Listing: the count query and the page query

Pattern(v) == Str(<<"%">> \o v.s \o <<"%">>)

Given(v) == v.t = "str" /\ v.s # <<>>

\* the values the ? of one predicate fragment stand for, in textual order
FragmentBinds(frag, q) ==
    CASE frag = "status" -> <<IF q.status.t = "undefined" THEN Str(Completed) ELSE q.status>>
      [] frag = "search" -> <<Pattern(q.search), Pattern(q.search)>>
      [] frag = "entity" -> <<Pattern(q.entity)>>

RECURSIVE BindsOf(_, _)
BindsOf(where, q) ==
    IF where = <<>> THEN <<>>
    ELSE FragmentBinds(Head(where), q) \o BindsOf(Tail(where), q)

\* C8: whatever filters are present, the count query has the page query's
\* predicate and the page query's parameters without the trailing limit and
\* offset, in the order of the predicate's fragments; and totalPages is the
\* ceiling of total / limit for the total that predicate gives.
CountQueryMatchesPageQuery ==
    /\ loc.countQuery.issued =>
            LET cq == loc.countQuery
                pq == loc.pageQuery
            IN  /\ pq.issued
                /\ cq.where = pq.where
                /\ cq.where = <<"status">>
                                \o (IF Given(req.query.search) THEN <<"search">> ELSE <<>>)
                                \o (IF Given(req.query.entity) THEN <<"entity">> ELSE <<>>)
                /\ Len(pq.params) = Len(cq.params) + 2
                /\ \A i \in 1..Len(cq.params) : cq.params[i] = pq.params[i]
                /\ cq.params = BindsOf(cq.where, req.query)
                /\ pq.params[Len(pq.params)] = loc.offset
    /\ (pc = [h |-> "comments", at |-> "done"] /\ resp.status = 200) =>
            LET pg == resp.body.data.pagination
                rows == JoinedRows(db)
            IN  /\ pg.total = Cardinality({i \in 1..Len(rows) :
                        WhereHolds(rows[i], loc.countQuery.where, loc.countQuery.params)})
                /\ pg.limit.t = "num"
                /\ pg.limit = loc.pageQuery.params[Len(loc.pageQuery.params) - 1]
                /\ pg.limit.n > 0 =>
                        /\ pg.totalPages.t = "num"
                        /\ (pg.totalPages.n - 1) * pg.limit.n < pg.total
                        /\ pg.total <= pg.totalPages.n * pg.limit.n
                /\ pg.limit.n < 0 =>
                        /\ pg.totalPages.t = "num"
                        /\ (pg.totalPages.n - 1) * pg.limit.n > pg.total
                        /\ pg.total >= pg.totalPages.n * pg.limit.n
                /\ pg.limit.n = 0 => pg.totalPages.t \in {"inf", "nan"}

\* a listing filtered by search and by entity has found two rows and, with
\* limit 1, reports two pages
TwoPagesUnderBothFilters ==
    /\ pc = [h |-> "comments", at |-> "done"]
    /\ resp.status = 200
    /\ loc.countQuery.where = <<"status", "search", "entity">>
    /\ resp.body.data.pagination.total = 2
    /\ resp.body.data.pagination.limit = Num(1)
    /\ resp.body.data.pagination.totalPages = Num(2)

----------------------------------------------------------------------------
\* Fallback mining: occurrences in the scan

MinedAnswer ==
    /\ pc = [h |-> "entities", at |-> "done"]
    /\ scans = 1
    /\ resp.status = 200

\* the sections object of the i-th scanned comment, if its text is one
HasSections(i) ==
    /\ loc.comments[i].structured_sections.k = "json"
    /\ loc.comments[i].structured_sections.v.t = "obj"

Sections(i) == loc.comments[i].structured_sections.v.o

\* every occurrence of an entity in the scan: <<comment, role, position>>,
\* role 1 a key point longer than 2, role 2 the category, role 3 an
\* organization match
Occurrences ==
    UNION {
        IF ~HasSections(i) THEN {}
        ELSE (IF "keyPoints" \in DOMAIN Sections(i)
              THEN {<<i, 1, j>> : j \in {k \in 1..Len(Sections(i).keyPoints.a) :
                                    Len(Trim(Sections(i).keyPoints.a[k].s)) > 2}}
              ELSE {})
             \cup (IF "category" \in DOMAIN Sections(i) /\ Sections(i).category.s # <<>>
                   THEN {<<i, 2, 1>>} ELSE {})
             \cup (IF "detailedContent" \in DOMAIN Sections(i)
                   THEN {<<i, 3, j>> :
                            j \in 1..Len(OrgMatches(Sections(i).detailedContent.s, 1))}
                   ELSE {})
        : i \in 1..Len(loc.comments)}

NameOf(occ) ==
    CASE occ[2] = 1 -> Trim(Sections(occ[1]).keyPoints.a[occ[3]].s)
      [] occ[2] = 2 -> Trim(Sections(occ[1]).category.s)
      [] occ[2] = 3 -> Trim(OrgMatches(Sections(occ[1]).detailedContent.s, 1)[occ[3]])

Earlier(a, b) ==
    \/ a[1] < b[1]
    \/ a[1] = b[1] /\ a[2] < b[2]
    \/ a[1] = b[1] /\ a[2] = b[2] /\ a[3] < b[3]

OccurrencesOf(name) == {occ \in Occurrences : NameOf(occ) = name}

FirstOccurrence(name) ==
    CHOOSE occ \in OccurrencesOf(name) :
        \A other \in OccurrencesOf(name) : other = occ \/ Earlier(occ, other)

\* C3: the count of every emitted entity is the number of occurrences of its
\* trimmed name in the scan, repeats inside one comment's keyPoints counted
\* one by one, and every name that occurs is emitted once.
CountIsNumberOfOccurrences ==
    MinedAnswer =>
        LET data == resp.body.data
        IN  /\ \A i \in 1..Len(data) :
                    data[i].comment_count = Cardinality(OccurrencesOf(data[i].entity_name))
            /\ \A occ \in Occurrences :
                    Cardinality({i \in 1..Len(data) :
                                    data[i].entity_name = NameOf(occ)}) = 1

CostName == <<"C", "o", "s", "t">>

\* a key point listed twice in one comment and once in the other of a scan
\* of two comments has been emitted with count 3
TwiceInOneOnceInAnother ==
    /\ MinedAnswer
    /\ Len(loc.comments) = 2
    /\ \E a, b \in 1..2 :
          /\ a # b
          /\ Cardinality({occ \in OccurrencesOf(CostName) : occ[1] = a /\ occ[2] = 1}) = 2
          /\ Cardinality({occ \in OccurrencesOf(CostName) : occ[1] = b}) = 1
    /\ \E i \in 1..Len(resp.body.data) :
          /\ resp.body.data[i].entity_name = CostName
          /\ resp.body.data[i].comment_count = 3

\* C4: the mined list is in descending order of count, and entities of equal
\* count are in the order of their first occurrence in the scan.
RankedByCountThenFirstSeen ==
    MinedAnswer =>
        LET data == resp.body.data
        IN  \A i, j \in 1..Len(data) :
                i < j =>
                    /\ data[i].comment_count >= data[j].comment_count
                    /\ data[i].comment_count = data[j].comment_count =>
                            Earlier(FirstOccurrence(data[i].entity_name),
                                    FirstOccurrence(data[j].entity_name))

\* the entity with the highest count was not the first one met, and three
\* entities of equal count follow it
ThreeEqualBehindLaterLeader ==
    /\ MinedAnswer
    /\ Len(resp.body.data) >= 4
    /\ resp.body.data[1].comment_count > resp.body.data[2].comment_count
    /\ resp.body.data[2].comment_count = resp.body.data[3].comment_count
    /\ resp.body.data[3].comment_count = resp.body.data[4].comment_count
    /\ loc.entityMap[1].name # resp.body.data[1].entity_name

----------------------------------------------------------------------------
\* Fallback mining: categories

\* the comments of the scan that carry the category name (trimmed)
CommentsCarrying(name) ==
    {occ[1] : occ \in {o \in Occurrences : o[2] = 2 /\ NameOf(o) = name}}

KeyPointNames == {NameOf(occ) : occ \in {o \in Occurrences : o[2] = 1}}

\* C11: for every category carried by a scanned comment the mined list holds
\* an entity of type category with the trimmed category as its name and the
\* number of comments carrying that category as its count, also when the
\* same string occurs as a key point or as an organization match; and key
\* points that differ only in letter case are separate entities, each with
\* the count of its own occurrences.
CategoryEntityCountsItsComments ==
    MinedAnswer =>
        LET data == resp.body.data
        IN  /\ \A occ \in {o \in Occurrences : o[2] = 2} :
                    \E i \in 1..Len(data) :
                        /\ data[i].entity_name = NameOf(occ)
                        /\ data[i].entity_type = "category"
                        /\ data[i].comment_count =
                                Cardinality(CommentsCarrying(NameOf(occ)))
            /\ \A a, b \in KeyPointNames :
                    (a # b /\ FoldAll(a) = FoldAll(b)) =>
                        \E i, j \in 1..Len(data) :
                            /\ i # j
                            /\ data[i].entity_name = a
                            /\ data[j].entity_name = b
                            /\ data[i].comment_count = Cardinality(OccurrencesOf(a))
                            /\ data[j].comment_count = Cardinality(OccurrencesOf(b))

====
